---- MODULE Spec2Model ----
(***************************************************************************)
(* A model of asyncgui/_core.py: Task, Event, start() and the suspension   *)
(* protocol that connects a coroutine to whoever drives it.                *)
(*                                                                         *)
(* The program is single threaded and re-entrant: Event.set() calls the    *)
(* resume callbacks of its waiters, which run other coroutines, which may  *)
(* call set(), cancel() or start() themselves.  The model therefore keeps  *)
(* the Python call stack explicitly.  Only the frame on top of the stack   *)
(* can take a step; the driver (the embedding program) acts only when the  *)
(* stack is empty.  The code a Task wraps is arbitrary: at every point the *)
(* computation chooses its next statement among the operations of the      *)
(* library, until the budget of operations MaxOps is used up.              *)
(***************************************************************************)
EXTENDS Integers, Sequences, FiniteSets, TLC

\* Bound of the model: the number of library operations (driver calls and
\* statements of the computations) in one behaviour.
MaxOps == 4

Tasks == {1, 2}
UserEvents == {1}
Callbacks == {1}
Args == {1, 2}

\* Values that travel through the program: None, the arguments of Event.set(),
\* the value a computation returns, a Task and a Task's bound method _step_coro.
None == [k |-> "None", id |-> 0]
Arg(n) == [k |-> "arg", id |-> n]
RetVal == [k |-> "result", id |-> 42]
TaskRef(t) == [k |-> "Task", id |-> t]
StepCoroRef(t) == [k |-> "step_coro", id |-> t]

\* Task._event of task t.
CompletionEvent(t) == 10 + t
Events == UserEvents \cup {CompletionEvent(t) : t \in Tasks}

\* The coroutine that is given to raw_start(), which no Task wraps.
Raw == Cardinality(Tasks) + 1
Coros == Tasks \cup {Raw}

VARIABLES
    state,              \* Task._state
    result,             \* Task._result
    exception,          \* Task._exception
    suppresses,         \* Task._suppresses_exception
    cancel_called,      \* Task._cancel_called
    cancel_protection,  \* Task._cancel_protection
    coro,               \* getcoroutinestate(Task._root_coro)
    susp,               \* the suspension point at which the coroutine is parked
    scopes,             \* open cancel_protection() blocks of the computation
    got,                \* the value the computation's last await produced
    flag,               \* Event._flag
    value,              \* Event._value
    list,               \* Event._step_coro_list
    cbcount,            \* number of invocations of a plain callback
    cbgot,              \* the payload a plain callback last received
    cbreg,              \* number of add_callback() calls made with a plain callback
    stack,              \* the call stack, innermost frame last
    ret,                \* what the frame that just ended hands to its caller
    ops                 \* operations used so far

vars == <<state, result, exception, suppresses, cancel_called, cancel_protection,
          coro, susp, scopes, got, flag, value, list, cbcount, cbgot, cbreg, stack,
          ret, ops>>

taskVars == <<state, result, exception, suppresses, cancel_called, cancel_protection,
              coro, susp, scopes, got>>
eventVars == <<flag, value, list>>
cbVars == <<cbcount, cbgot>>

----------------------------------------------------------------------------
\* Frames and results

NoPre == [st |-> "none", co |-> "none", pr |-> 0, cc |-> FALSE, fl |-> FALSE]

\* What a call sees of its target when it is made.
TaskPre(t) == [st |-> state[t], co |-> coro[t], pr |-> cancel_protection[t],
               cc |-> cancel_called[t], fl |-> FALSE]
\* A resume callback is called: what the call sees of the task it belongs to,
\* if it belongs to one.
StepPre(c) == IF c \in Tasks THEN TaskPre(c) ELSE NoPre
EventPre(e) == [st |-> "none", co |-> "none", pr |-> 0, cc |-> FALSE, fl |-> flag[e]]

Frame(k, t, e, a, pre) ==
    [k |-> k, t |-> t, e |-> e, a |-> a, w |-> <<>>, ph |-> "begin", x |-> "none",
     pre |-> pre]

NoRet == [k |-> "none", r |-> "none", e |-> 0, x |-> "none", f |-> "none", t |-> 0,
          a |-> None, pre |-> NoPre]

Top == stack[Len(stack)]
Pop == SubSeq(stack, 1, Len(stack) - 1)
SetTop(f) == [stack EXCEPT ![Len(stack)] = f]

\* The frame fr ends normally.
Returned(fr) == [NoRet EXCEPT !.k = "return", !.f = fr.k, !.t = fr.t, !.e = fr.e,
                              !.a = fr.a, !.pre = fr.pre]
\* The frame fr ends with the exception x.
Raised(fr, x) == [NoRet EXCEPT !.k = "raise", !.x = x, !.f = fr.k, !.t = fr.t,
                               !.e = fr.e, !.a = fr.a, !.pre = fr.pre]

Running(k, ph) == stack # <<>> /\ Top.k = k /\ Top.ph = ph

----------------------------------------------------------------------------
Init ==
    /\ state = [t \in Tasks |-> "CREATED"]
    /\ result = [t \in Tasks |-> None]
    /\ exception = [t \in Tasks |-> "none"]
    /\ suppresses = [t \in Tasks |-> FALSE]
    /\ cancel_called = [t \in Tasks |-> FALSE]
    /\ cancel_protection = [t \in Tasks |-> 0]
    /\ coro = [t \in Coros |-> "CORO_CREATED"]
    /\ susp = [t \in Coros |-> [k |-> "none", e |-> 0]]
    /\ scopes = [t \in Tasks |-> 0]
    /\ got = [t \in Coros |-> None]
    /\ flag = [e \in Events |-> FALSE]
    /\ value = [e \in Events |-> None]
    /\ list = [e \in Events |-> <<>>]
    /\ cbcount = [c \in Callbacks |-> 0]
    /\ cbgot = [c \in Callbacks |-> None]
    /\ cbreg = [c \in Callbacks |-> 0]
    /\ stack = <<>>
    /\ ret = NoRet
    /\ ops = 0

----------------------------------------------------------------------------
\* Task._is_cancellable as it would be if it looked at the coroutine only.
IsCancellable_IgnoresProtection(t) == coro[t] # "CORO_RUNNING"

\* Task._is_cancellable
IsCancellable(t) == cancel_protection[t] = 0 /\ coro[t] # "CORO_RUNNING"

\* An entry of Event._step_coro_list: the _step_coro of a task or a plain
\* callback; n is the operation that made the registration, counted from the
\* start of the behaviour.
Waiter(k, id, n) == [k |-> k, id |-> id, n |-> n]

\* list.append as it would be if it put the new entry first.
Register_Front(l, w) == <<w>> \o l

\* self._step_coro_list.append
Register(l, w) == Append(l, w)

\* The library may be called by the driver, when nothing runs, or by the
\* computation on top of the stack.
CanAct ==
    /\ ops < MaxOps
    /\ \/ stack = <<>>
       \/ Running("coro", "user") /\ ret.k = "none"

\* A call: a new frame on the stack; the calling computation waits for it.
Invoke(fr) ==
    /\ CanAct
    /\ ops' = ops + 1
    /\ ret' = NoRet
    /\ stack' = IF stack = <<>> THEN <<fr>>
                ELSE Append(SetTop([Top EXCEPT !.ph = "call"]), fr)

\* An operation that completes in one step.
Atomic ==
    /\ CanAct
    /\ ops' = ops + 1
    /\ ret' = NoRet
    /\ UNCHANGED stack

----------------------------------------------------------------------------
\* The operations of the library, called by the driver or by a computation

Start(t) ==
    /\ Invoke(Frame("start", t, 0, None, TaskPre(t)))
    /\ UNCHANGED <<taskVars, eventVars, cbVars, cbreg>>

Cancel(t) ==
    /\ Invoke(Frame("cancel", t, 0, None, TaskPre(t)))
    /\ UNCHANGED <<taskVars, eventVars, cbVars, cbreg>>

EventSet(e, n) ==
    /\ Invoke(Frame("set", 0, e, Arg(n), EventPre(e)))
    /\ UNCHANGED <<taskVars, eventVars, cbVars, cbreg>>

\* Event.clear as it would be if it put the Event back as it was constructed.
EventClear_Resets(e) ==
    /\ Atomic
    /\ flag' = [flag EXCEPT ![e] = FALSE]
    /\ value' = [value EXCEPT ![e] = None]
    /\ list' = [list EXCEPT ![e] = <<>>]
    /\ UNCHANGED <<taskVars, cbVars, cbreg>>

\* Event.clear
EventClear(e) ==
    /\ Atomic
    /\ flag' = [flag EXCEPT ![e] = FALSE]
    /\ UNCHANGED <<taskVars, value, list, cbVars, cbreg>>

\* Event.add_callback with a plain callback, which records what it is given.
AddCallback(e, c) ==
    /\ Atomic
    /\ IF flag[e]
       THEN /\ cbcount' = [cbcount EXCEPT ![c] = @ + 1]
            /\ cbgot' = [cbgot EXCEPT ![c] = value[e]]
            /\ UNCHANGED list
       ELSE /\ list' = [list EXCEPT ![e] = Register(@, Waiter("cb", c, ops + 1))]
            /\ UNCHANGED cbVars
    /\ cbreg' = [cbreg EXCEPT ![c] = @ + 1]
    /\ UNCHANGED <<taskVars, flag, value>>

\* Code outside this module (a combinator) marks a task it has created as
\* one whose errors it collects itself.
SetSuppresses(t) ==
    /\ stack = <<>>
    /\ ops < MaxOps
    /\ state[t] = "CREATED"
    /\ ~suppresses[t]
    /\ suppresses' = [suppresses EXCEPT ![t] = TRUE]
    /\ ops' = ops + 1
    /\ ret' = NoRet
    /\ UNCHANGED <<state, result, exception, cancel_called, cancel_protection,
                   coro, susp, scopes, got, eventVars, cbVars, cbreg, stack>>

----------------------------------------------------------------------------
\* coroutine.close() of Task._root_coro, called from the frame fr on top of
\* the stack.  A coroutine that never ran is closed without running any of
\* its code; a suspended one gets GeneratorExit thrown in at its suspension
\* point; a closed one is left alone; one that is running refuses.
ActualCancel(fr) ==
    LET t == fr.t IN
    IF coro[t] = "CORO_SUSPENDED"
    THEN /\ coro' = [coro EXCEPT ![t] = "CORO_RUNNING"]
         /\ stack' = Append(SetTop([fr EXCEPT !.ph = "closing"]),
                            [Frame("coro", t, 0, None, NoPre) EXCEPT !.ph = "throw"])
         /\ ret' = NoRet
    ELSE IF coro[t] = "CORO_RUNNING"
    THEN /\ stack' = Pop
         /\ ret' = Raised(fr, "ValueError")
         /\ UNCHANGED coro
    ELSE /\ coro' = [coro EXCEPT ![t] = "CORO_CLOSED"]
         /\ stack' = Pop
         /\ ret' = Returned(fr)

\* Task.cancel as it would be if it only recorded the request.
CancelBegin_RequestOnly ==
    /\ Running("cancel", "begin")
    /\ cancel_called' = [cancel_called EXCEPT ![Top.t] = TRUE]
    /\ stack' = Pop
    /\ ret' = Returned(Top)
    /\ UNCHANGED <<state, result, exception, suppresses, cancel_protection, coro, susp,
                   scopes, got, eventVars, cbVars, cbreg, ops>>

\* Task.cancel
CancelBegin ==
    /\ Running("cancel", "begin")
    /\ LET fr == Top
           t == fr.t
       IN /\ cancel_called' = [cancel_called EXCEPT ![t] = TRUE]
          /\ IF IsCancellable(t)
             THEN ActualCancel(fr)
             ELSE /\ stack' = Pop
                  /\ ret' = Returned(fr)
                  /\ UNCHANGED coro
    /\ UNCHANGED <<state, result, exception, suppresses, cancel_protection, susp,
                   scopes, got, eventVars, cbVars, cbreg, ops>>

\* start() as it would be without the check of the task's state.
StartBegin_NoStateCheck ==
    /\ Running("start", "begin")
    /\ LET fr == Top
           t == fr.t
       IN IF coro[t] = "CORO_CLOSED"
          THEN /\ stack' = Pop
               /\ ret' = Raised(fr, "RuntimeError")
               /\ UNCHANGED coro
          ELSE IF coro[t] = "CORO_RUNNING"
          THEN /\ stack' = Pop
               /\ ret' = Raised(fr, "ValueError")
               /\ UNCHANGED coro
          ELSE /\ coro' = [coro EXCEPT ![t] = "CORO_RUNNING"]
               /\ stack' = Append(SetTop([fr EXCEPT !.ph = "sent"]),
                                  [Frame("coro", t, 0, None, NoPre) EXCEPT
                                      !.ph = IF coro[t] = "CORO_CREATED" THEN "enter"
                                                                         ELSE "resume"])
               /\ ret' = NoRet
    /\ UNCHANGED <<state, result, exception, suppresses, cancel_called,
                   cancel_protection, susp, scopes, got, eventVars, cbVars, cbreg, ops>>

\* start(): the check of the argument and the first coro.send(None)
StartBegin ==
    /\ Running("start", "begin")
    /\ LET fr == Top
           t == fr.t
       IN IF state[t] # "CREATED"
          THEN /\ stack' = Pop
               /\ ret' = Raised(fr, "ValueError")
               /\ UNCHANGED coro
          ELSE IF coro[t] = "CORO_CLOSED"
          THEN /\ stack' = Pop
               /\ ret' = Raised(fr, "RuntimeError")
               /\ UNCHANGED coro
          ELSE /\ coro' = [coro EXCEPT ![t] = "CORO_RUNNING"]
               /\ stack' = Append(SetTop([fr EXCEPT !.ph = "sent"]),
                                  [Frame("coro", t, 0, None, NoPre) EXCEPT !.ph = "enter"])
               /\ ret' = NoRet
    /\ UNCHANGED <<state, result, exception, suppresses, cancel_called,
                   cancel_protection, susp, scopes, got, eventVars, cbVars, cbreg, ops>>

\* Task._step_coro: coro.send((args, kwargs)) unless the coroutine is closed
StepBegin ==
    /\ Running("step", "begin")
    /\ LET fr == Top
           t == fr.t
       IN CASE coro[t] = "CORO_CLOSED" ->
                 /\ stack' = SetTop([fr EXCEPT !.ph = "check"])
                 /\ ret' = NoRet
                 /\ UNCHANGED coro
            [] coro[t] = "CORO_RUNNING" ->
                 /\ stack' = Pop
                 /\ ret' = Raised(fr, "ValueError")
                 /\ UNCHANGED coro
            [] coro[t] = "CORO_CREATED" ->
                 /\ stack' = Pop
                 /\ ret' = Raised(fr, "TypeError")
                 /\ UNCHANGED coro
            [] coro[t] = "CORO_SUSPENDED" ->
                 /\ coro' = [coro EXCEPT ![t] = "CORO_RUNNING"]
                 /\ stack' = Append(SetTop([fr EXCEPT !.ph = "sent"]),
                                    [Frame("coro", t, 0, fr.a, NoPre) EXCEPT !.ph = "resume"])
                 /\ ret' = NoRet
    /\ UNCHANGED <<state, result, exception, suppresses, cancel_called,
                   cancel_protection, susp, scopes, got, eventVars, cbVars, cbreg, ops>>

Driving == stack # <<>> /\ Top.k \in {"start", "step", "raw_start"}

\* The coroutine has yielded a registration request, which start() and
\* _step_coro call with _step_coro: Event.wait on an unset Event appends it
\* to the list, sleep_forever drops it, Event.wait on a set Event calls it
\* with no arguments, get_step_coro calls it with itself.
DriveRegister ==
    /\ Driving /\ Top.ph = "sent" /\ ret.k = "yield"
    /\ LET fr == Top
           t == fr.t
       IN CASE ret.r = "append" ->
                 /\ list' = [list EXCEPT ![ret.e] = Register(@, Waiter("task", t, ops))]
                 /\ stack' = SetTop([fr EXCEPT !.ph = "check"])
            [] ret.r = "noop" ->
                 /\ stack' = SetTop([fr EXCEPT !.ph = "check"])
                 /\ UNCHANGED list
            [] ret.r = "resume" ->
                 /\ stack' = Append(SetTop([fr EXCEPT !.ph = "reg"]),
                                    Frame("step", t, 0, None, StepPre(t)))
                 /\ UNCHANGED list
            [] ret.r = "self" ->
                 /\ stack' = Append(SetTop([fr EXCEPT !.ph = "reg"]),
                                    Frame("step", t, 0, StepCoroRef(t), StepPre(t)))
                 /\ UNCHANGED list
    /\ ret' = NoRet
    /\ UNCHANGED <<taskVars, flag, value, cbVars, cbreg, ops>>

\* The registration request has returned.
DriveRegistered ==
    /\ Driving /\ Top.ph = "reg" /\ ret.k = "return"
    /\ stack' = SetTop([Top EXCEPT !.ph = "check"])
    /\ ret' = NoRet
    /\ UNCHANGED <<taskVars, eventVars, cbVars, cbreg, ops>>

\* except StopIteration: pass
DriveStop ==
    /\ Driving /\ Top.ph = "sent" /\ ret.k = "stop"
    /\ stack' = Pop
    /\ ret' = Returned(Top)
    /\ UNCHANGED <<taskVars, eventVars, cbVars, cbreg, ops>>

\* start() and _step_coro as they would be without the check after the step.
DriveCheck_NoRecheck ==
    /\ Driving /\ Top.ph = "check"
    /\ stack' = Pop
    /\ ret' = Returned(Top)
    /\ UNCHANGED <<taskVars, eventVars, cbVars, cbreg, ops>>

\* else: if cancel_called and _is_cancellable: _actual_cancel()
DriveCheck ==
    /\ Driving /\ Top.ph = "check"
    /\ LET fr == Top
           t == fr.t
       IN IF t \in Tasks /\ cancel_called[t] /\ IsCancellable(t)
          THEN ActualCancel(fr)
          ELSE /\ stack' = Pop
               /\ ret' = Returned(fr)
               /\ UNCHANGED coro
    /\ UNCHANGED <<state, result, exception, suppresses, cancel_called,
                   cancel_protection, susp, scopes, got, eventVars, cbVars, cbreg, ops>>

\* coroutine.close() has returned to cancel(), start() or _step_coro.
CloseReturn ==
    /\ stack # <<>> /\ Top.k \in {"start", "step", "cancel"}
    /\ Top.ph = "closing" /\ ret.k = "return"
    /\ stack' = Pop
    /\ ret' = Returned(Top)
    /\ UNCHANGED <<taskVars, eventVars, cbVars, cbreg, ops>>

\* No function of the module catches anything but StopIteration: an
\* exception that reaches start(), _step_coro, cancel() or Event.set()
\* passes on to the caller.
Propagate ==
    /\ stack # <<>> /\ Top.k \in {"start", "step", "cancel", "set", "raw_start"}
    /\ ret.k = "raise"
    /\ stack' = Pop
    /\ ret' = Raised(Top, ret.x)
    /\ UNCHANGED <<taskVars, eventVars, cbVars, cbreg, ops>>

----------------------------------------------------------------------------
\* Event.set

\* Event.set as it would be without the check of the flag.
SetBegin_NoGuard ==
    /\ Running("set", "begin")
    /\ LET fr == Top
           e == fr.e
       IN /\ flag' = [flag EXCEPT ![e] = TRUE]
          /\ value' = [value EXCEPT ![e] = fr.a]
          /\ list' = [list EXCEPT ![e] = <<>>]
          /\ stack' = SetTop([fr EXCEPT !.ph = "loop", !.w = list[e]])
          /\ ret' = NoRet
    /\ UNCHANGED <<taskVars, cbVars, cbreg, ops>>

\* Event.set as it would be if it notified the list without swapping it out.
SetBegin_NoSwap ==
    /\ Running("set", "begin")
    /\ LET fr == Top
           e == fr.e
       IN IF flag[e]
          THEN /\ stack' = Pop
               /\ ret' = Returned(fr)
               /\ UNCHANGED eventVars
          ELSE /\ flag' = [flag EXCEPT ![e] = TRUE]
               /\ value' = [value EXCEPT ![e] = fr.a]
               /\ stack' = SetTop([fr EXCEPT !.ph = "loop", !.w = list[e]])
               /\ ret' = NoRet
               /\ UNCHANGED list
    /\ UNCHANGED <<taskVars, cbVars, cbreg, ops>>

\* if self._flag: return; otherwise the flag and the value are stored and
\* the list of waiters is swapped for an empty one.
SetBegin ==
    /\ Running("set", "begin")
    /\ LET fr == Top
           e == fr.e
       IN IF flag[e]
          THEN /\ stack' = Pop
               /\ ret' = Returned(fr)
               /\ UNCHANGED eventVars
          ELSE /\ flag' = [flag EXCEPT ![e] = TRUE]
               /\ value' = [value EXCEPT ![e] = fr.a]
               /\ list' = [list EXCEPT ![e] = <<>>]
               /\ stack' = SetTop([fr EXCEPT !.ph = "loop", !.w = list[e]])
               /\ ret' = NoRet
    /\ UNCHANGED <<taskVars, cbVars, cbreg, ops>>

\* The waiter Event.set calls next, of those it has captured.
NextWaiter(w) == Head(w)
RestWaiters(w) == Tail(w)

\* for step_coro in step_coro_list: step_coro(*args, **kwargs)
SetLoop ==
    /\ Running("set", "loop") /\ ret.k = "none"
    /\ LET fr == Top IN
       IF fr.w = <<>>
       THEN /\ stack' = Pop
            /\ ret' = Returned(fr)
            /\ UNCHANGED cbVars
       ELSE LET h == NextWaiter(fr.w)
                rest == [fr EXCEPT !.w = RestWaiters(fr.w)]
            IN IF h.k = "task"
               THEN /\ stack' = Append(SetTop([rest EXCEPT !.ph = "call"]),
                                       Frame("step", h.id, fr.e, fr.a, StepPre(h.id)))
                    /\ ret' = NoRet
                    /\ UNCHANGED cbVars
               ELSE /\ cbcount' = [cbcount EXCEPT ![h.id] = @ + 1]
                    /\ cbgot' = [cbgot EXCEPT ![h.id] = fr.a]
                    /\ stack' = SetTop(rest)
                    /\ ret' = NoRet
    /\ UNCHANGED <<taskVars, eventVars, cbreg, ops>>

\* A waiter has returned to the loop of Event.set.
SetNext ==
    /\ Running("set", "call") /\ ret.k = "return"
    /\ stack' = SetTop([Top EXCEPT !.ph = "loop"])
    /\ ret' = NoRet
    /\ UNCHANGED <<taskVars, eventVars, cbVars, cbreg, ops>>

----------------------------------------------------------------------------
\* The coroutine Task._wrapper(awaitable) and the computation it awaits

\* The wrapper as it would be if it did not record that the task has started.
WrapperEnter_NotRecorded ==
    /\ Running("coro", "enter")
    /\ stack' = SetTop([Top EXCEPT !.ph = "user"])
    /\ UNCHANGED <<taskVars, eventVars, cbVars, cbreg, ret, ops>>

\* self._state = TaskState.STARTED
WrapperEnter ==
    /\ Running("coro", "enter")
    /\ state' = [state EXCEPT ![Top.t] = "STARTED"]
    /\ stack' = SetTop([Top EXCEPT !.ph = "user"])
    /\ UNCHANGED <<result, exception, suppresses, cancel_called, cancel_protection,
                   coro, susp, scopes, got, eventVars, cbVars, cbreg, ret, ops>>

\* The owner of a resume callback as it would be if the closure of
\* raw_start() had one.
SelfOf_Any(v) == IF v.k = "step_coro" THEN TaskRef(v.id) ELSE None

\* The task a _step_coro belongs to: getattr(step_coro, '__self__', None)
SelfOf(v) == IF v.k = "step_coro" /\ v.id \in Tasks THEN TaskRef(v.id) ELSE None

\* coro.send((args, kwargs)) continues the coroutine after the yield at which
\* it is parked: Event.wait returns what was sent or, on an Event that was
\* set, Event._value; get_current_task returns the owner of the callback;
\* cancel_protection adds one to the owner's _cancel_protection.
Resumed ==
    /\ Running("coro", "resume")
    /\ susp[Top.t].k = "protect" => SelfOf(Top.a) # None
    /\ LET fr == Top
           t == fr.t
           k == susp[t].k
       IN /\ got' = [got EXCEPT ![t] =
                        CASE k = "wait" -> fr.a
                          [] k = "waitset" -> value[susp[t].e]
                          [] k = "self" -> SelfOf(fr.a)
                          [] k = "sleep" -> None
                          [] OTHER -> @]
          /\ IF k = "protect"
             THEN /\ cancel_protection' = [cancel_protection EXCEPT ![SelfOf(fr.a).id] = @ + 1]
                  /\ scopes' = [scopes EXCEPT ![t] = @ + 1]
             ELSE UNCHANGED <<cancel_protection, scopes>>
          /\ susp' = [susp EXCEPT ![t] = [k |-> "none", e |-> 0]]
          /\ stack' = SetTop([fr EXCEPT !.ph = "user", !.a = None])
    /\ UNCHANGED <<state, result, exception, suppresses, cancel_called, coro,
                   eventVars, cbVars, cbreg, ret, ops>>

\* The computation on top of the stack may execute its next statement.
CanRun(t) ==
    /\ Running("coro", "user")
    /\ Top.t = t
    /\ ret.k = "none"
    /\ ops < MaxOps

\* The computation suspends: it yields the registration request r and the
\* coroutine leaves the stack.
Yield(t, k, r, e) ==
    /\ CanRun(t)
    /\ coro' = [coro EXCEPT ![t] = "CORO_SUSPENDED"]
    /\ susp' = [susp EXCEPT ![t] = [k |-> k, e |-> e]]
    /\ stack' = Pop
    /\ ret' = [NoRet EXCEPT !.k = "yield", !.r = r, !.e = e, !.f = "coro", !.t = t]
    /\ ops' = ops + 1
    /\ UNCHANGED <<state, result, exception, suppresses, cancel_called,
                   cancel_protection, scopes, got, eventVars, cbVars, cbreg>>

\* Event.wait as it would be if it registered whether or not the Event is set.
Wait_AlwaysAppend(t, e) == Yield(t, "wait", "append", e)

\* await event.wait()
Wait(t, e) ==
    IF flag[e] THEN Yield(t, "waitset", "resume", e)
               ELSE Yield(t, "wait", "append", e)

\* await sleep_forever()
SleepForever(t) == Yield(t, "sleep", "noop", 0)

\* await get_current_task()
GetCurrentTask(t) == Yield(t, "self", "self", 0)

\* async with cancel_protection(): the entry, which awaits get_current_task()
Protect(t) == Yield(t, "protect", "self", 0)

\* the exit of a cancel_protection() block: task._cancel_protection -= 1
Unprotect(t) ==
    /\ CanRun(t)
    /\ scopes[t] > 0
    /\ scopes' = [scopes EXCEPT ![t] = @ - 1]
    /\ cancel_protection' = [cancel_protection EXCEPT ![t] = @ - 1]
    /\ ops' = ops + 1
    /\ UNCHANGED <<state, result, exception, suppresses, cancel_called, coro, susp,
                   got, eventVars, cbVars, cbreg, stack, ret>>

\* Leaving the computation as it would be if the finally clause of
\* cancel_protection() did not run.
Unwound_Nothing(t) == cancel_protection

\* Leaving the computation, however it is left, leaves the cancel_protection()
\* blocks that are open in it: every one runs its finally clause.
Unwound(t) == [cancel_protection EXCEPT ![t] = @ - scopes[t]]

\* The wrapper as it would be if a cancel that was requested won over the
\* return of the computation.
Return_CancelWins(t) ==
    /\ CanRun(t)
    /\ cancel_protection' = Unwound(t)
    /\ scopes' = [scopes EXCEPT ![t] = 0]
    /\ result' = [result EXCEPT ![t] = IF cancel_called[t] THEN @ ELSE RetVal]
    /\ state' = [state EXCEPT ![t] = IF cancel_called[t] THEN "CANCELLED" ELSE "DONE"]
    /\ stack' = SetTop([Top EXCEPT !.ph = "finally", !.x = "StopIteration"])
    /\ ops' = ops + 1
    /\ UNCHANGED <<exception, suppresses, cancel_called, coro, susp, got,
                   eventVars, cbVars, cbreg, ret>>

\* The computation returns: self._result = await awaitable, then the else
\* clause of the wrapper.
Return(t) ==
    /\ CanRun(t)
    /\ cancel_protection' = Unwound(t)
    /\ scopes' = [scopes EXCEPT ![t] = 0]
    /\ result' = [result EXCEPT ![t] = RetVal]
    /\ state' = [state EXCEPT ![t] = "DONE"]
    /\ stack' = SetTop([Top EXCEPT !.ph = "finally", !.x = "StopIteration"])
    /\ ops' = ops + 1
    /\ UNCHANGED <<exception, suppresses, cancel_called, coro, susp, got,
                   eventVars, cbVars, cbreg, ret>>

\* except Exception as it would be if it swallowed the error of every task.
Except_Swallows(t, x) ==
    /\ cancel_protection' = Unwound(t)
    /\ scopes' = [scopes EXCEPT ![t] = 0]
    /\ state' = [state EXCEPT ![t] = "CANCELLED"]
    /\ exception' = [exception EXCEPT ![t] = x]
    /\ stack' = SetTop([Top EXCEPT !.ph = "finally", !.x = "StopIteration"])
    /\ UNCHANGED <<result, suppresses, cancel_called, coro, susp, got, eventVars, cbVars, cbreg>>

\* except Exception as e: the exception x leaves the computation.
Except(t, x) ==
    /\ cancel_protection' = Unwound(t)
    /\ scopes' = [scopes EXCEPT ![t] = 0]
    /\ state' = [state EXCEPT ![t] = "CANCELLED"]
    /\ IF suppresses[t]
       THEN /\ exception' = [exception EXCEPT ![t] = x]
            /\ stack' = SetTop([Top EXCEPT !.ph = "finally", !.x = "StopIteration"])
       ELSE /\ stack' = SetTop([Top EXCEPT !.ph = "finally", !.x = x])
            /\ UNCHANGED exception
    /\ UNCHANGED <<result, suppresses, cancel_called, coro, susp, got, eventVars, cbVars, cbreg>>

\* The computation raises an error of its own.
Raise(t) ==
    /\ CanRun(t)
    /\ Except(t, "Error")
    /\ ops' = ops + 1
    /\ UNCHANGED ret

\* A function the computation called has returned.
CallReturned ==
    /\ Running("coro", "call") /\ ret.k = "return"
    /\ stack' = SetTop([Top EXCEPT !.ph = "user"])
    /\ ret' = NoRet
    /\ UNCHANGED <<taskVars, eventVars, cbVars, cbreg, ops>>

\* A function the computation called has raised, and the computation does
\* not catch it.
CallRaised ==
    /\ Running("coro", "call") /\ ret.k = "raise"
    /\ Top.t \in Tasks
    /\ Except(Top.t, ret.x)
    /\ ret' = NoRet
    /\ UNCHANGED ops

\* close() throws GeneratorExit into the coroutine at the yield at which it
\* is parked; the bare except clause of the wrapper: state = CANCELLED; raise
WrapperClosed ==
    /\ Running("coro", "throw")
    /\ LET t == Top.t IN
       /\ cancel_protection' = Unwound(t)
       /\ scopes' = [scopes EXCEPT ![t] = 0]
       /\ state' = [state EXCEPT ![t] = "CANCELLED"]
       /\ stack' = SetTop([Top EXCEPT !.ph = "finally", !.x = "GeneratorExit"])
    /\ UNCHANGED <<result, exception, suppresses, cancel_called, coro, susp, got,
                   eventVars, cbVars, cbreg, ret, ops>>

\* The wrapper as it would be if it set the completion event without the task.
WrapperFinally_NoPayload ==
    /\ Running("coro", "finally")
    /\ LET t == Top.t IN
       stack' = Append(SetTop([Top EXCEPT !.ph = "finwait"]),
                       Frame("set", 0, CompletionEvent(t), None,
                             EventPre(CompletionEvent(t))))
    /\ ret' = NoRet
    /\ UNCHANGED <<taskVars, eventVars, cbVars, cbreg, ops>>

\* finally: self._event.set(self)
WrapperFinally ==
    /\ Running("coro", "finally")
    /\ LET t == Top.t IN
       stack' = Append(SetTop([Top EXCEPT !.ph = "finwait"]),
                       Frame("set", 0, CompletionEvent(t), TaskRef(t),
                             EventPre(CompletionEvent(t))))
    /\ ret' = NoRet
    /\ UNCHANGED <<taskVars, eventVars, cbVars, cbreg, ops>>

\* The coroutine ends: StopIteration for the caller of send(), the pending
\* exception if there is one; close() swallows the GeneratorExit it threw.
\* An exception raised by a waiter of the completion event replaces it.
WrapperEnd ==
    /\ Running("coro", "finwait") /\ ret.k \in {"return", "raise"}
    /\ LET fr == Top
           t == fr.t
           x == IF ret.k = "raise" THEN ret.x ELSE fr.x
       IN /\ coro' = [coro EXCEPT ![t] = "CORO_CLOSED"]
          /\ stack' = Pop
          /\ ret' = CASE x = "StopIteration" -> [NoRet EXCEPT !.k = "stop", !.f = "coro", !.t = t]
                      [] x = "GeneratorExit" -> [NoRet EXCEPT !.k = "return", !.f = "close", !.t = t]
                      [] OTHER -> [NoRet EXCEPT !.k = "raise", !.x = x, !.f = "coro", !.t = t]
    /\ UNCHANGED <<state, result, exception, suppresses, cancel_called,
                   cancel_protection, susp, scopes, got, eventVars, cbVars, cbreg, ops>>

----------------------------------------------------------------------------
Next ==
    \/ \E t \in Tasks : Start(t)
    \/ \E t \in Tasks : Cancel(t)
    \/ \E e \in UserEvents, n \in Args : EventSet(e, n)
    \/ \E e \in UserEvents : EventClear(e)
    \/ \E e \in Events, c \in Callbacks : AddCallback(e, c)
    \/ \E t \in Tasks : SetSuppresses(t)
    \/ CancelBegin
    \/ StartBegin
    \/ StepBegin
    \/ DriveRegister
    \/ DriveRegistered
    \/ DriveStop
    \/ DriveCheck
    \/ CloseReturn
    \/ Propagate
    \/ SetBegin
    \/ SetLoop
    \/ SetNext
    \/ WrapperEnter
    \/ Resumed
    \/ \E t \in Tasks, e \in Events : Wait(t, e)
    \/ \E t \in Tasks : SleepForever(t)
    \/ \E t \in Tasks : GetCurrentTask(t)
    \/ \E t \in Tasks : Protect(t)
    \/ \E t \in Tasks : Unprotect(t)
    \/ \E t \in Tasks : Return(t)
    \/ \E t \in Tasks : Raise(t)
    \/ CallReturned
    \/ CallRaised
    \/ WrapperClosed
    \/ WrapperFinally
    \/ WrapperEnd

Spec == Init /\ [][Next]_vars

----------------------------------------------------------------------------
\* Task.result

\* The accessor as it would be if it handed out _result of every ended task.
TaskResult_OfEnded(t) ==
    IF state[t] \in {"DONE", "CANCELLED"}
    THEN [k |-> "return", v |-> result[t], x |-> "none"]
    ELSE [k |-> "raise", v |-> None, x |-> "InvalidStateError: not ready"]

\* What reading task.result gives: the value returned or the error raised.
TaskResult(t) ==
    IF state[t] = "DONE"
    THEN [k |-> "return", v |-> result[t], x |-> "none"]
    ELSE IF state[t] = "CANCELLED"
    THEN [k |-> "raise", v |-> None, x |-> "InvalidStateError: was cancelled"]
    ELSE [k |-> "raise", v |-> None, x |-> "InvalidStateError: not ready"]

\* The driver or a computation reads task.result.
GetResult(t) ==
    /\ Invoke(Frame("result", t, 0, None, TaskPre(t)))
    /\ UNCHANGED <<taskVars, eventVars, cbVars, cbreg>>

\* The body of the property.
ResultBegin ==
    /\ Running("result", "begin")
    /\ LET out == TaskResult(Top.t) IN
       /\ stack' = Pop
       /\ ret' = IF out.k = "return" THEN [Returned(Top) EXCEPT !.a = out.v]
                                     ELSE Raised(Top, out.x)
    /\ UNCHANGED <<taskVars, eventVars, cbVars, cbreg, ops>>

----------------------------------------------------------------------------
\* raw_start(coro): the coroutine is driven by a closure step_coro, without a
\* Task, a wrapper or a check of any kind.

RawStart ==
    /\ Invoke(Frame("raw_start", Raw, 0, None, NoPre))
    /\ UNCHANGED <<taskVars, eventVars, cbVars, cbreg>>

\* coro.send(None), whatever the state of the coroutine is: a coroutine that
\* raw_start() is given again while it is parked goes on with None.
RawStartBegin ==
    /\ Running("raw_start", "begin")
    /\ LET fr == Top
           c == fr.t
       IN CASE coro[c] = "CORO_CLOSED" ->
                 /\ stack' = Pop
                 /\ ret' = Raised(fr, "RuntimeError")
                 /\ UNCHANGED coro
            [] coro[c] = "CORO_RUNNING" ->
                 /\ stack' = Pop
                 /\ ret' = Raised(fr, "ValueError")
                 /\ UNCHANGED coro
            [] coro[c] = "CORO_CREATED" ->
                 /\ coro' = [coro EXCEPT ![c] = "CORO_RUNNING"]
                 /\ stack' = Append(SetTop([fr EXCEPT !.ph = "sent"]),
                                    [Frame("coro", c, 0, None, NoPre) EXCEPT !.ph = "user"])
                 /\ ret' = NoRet
            [] coro[c] = "CORO_SUSPENDED" ->
                 /\ coro' = [coro EXCEPT ![c] = "CORO_RUNNING"]
                 /\ stack' = Append(SetTop([fr EXCEPT !.ph = "sent"]),
                                    [Frame("coro", c, 0, None, NoPre) EXCEPT !.ph = "resume"])
                 /\ ret' = NoRet
    /\ UNCHANGED <<state, result, exception, suppresses, cancel_called,
                   cancel_protection, susp, scopes, got, eventVars, cbVars, cbreg, ops>>

\* The coroutine ends with the exception x, or returns if x is StopIteration.
RawEnd(c, x) ==
    /\ c \notin Tasks
    /\ coro' = [coro EXCEPT ![c] = "CORO_CLOSED"]
    /\ stack' = Pop
    /\ ret' = IF x = "StopIteration"
              THEN [NoRet EXCEPT !.k = "stop", !.f = "coro", !.t = c]
              ELSE [NoRet EXCEPT !.k = "raise", !.x = x, !.f = "coro", !.t = c]
    /\ UNCHANGED <<state, result, exception, suppresses, cancel_called,
                   cancel_protection, scopes, got, eventVars, cbVars, cbreg>>

\* The computation returns.
RawReturn(c) ==
    /\ CanRun(c)
    /\ RawEnd(c, "StopIteration")
    /\ ops' = ops + 1
    /\ UNCHANGED susp

\* The computation raises an error of its own.
RawRaise(c) ==
    /\ CanRun(c)
    /\ RawEnd(c, "Error")
    /\ ops' = ops + 1
    /\ UNCHANGED susp

\* A function the computation called has raised, and the computation does
\* not catch it.
RawCallRaised ==
    /\ Running("coro", "call") /\ ret.k = "raise"
    /\ RawEnd(Top.t, ret.x)
    /\ UNCHANGED <<susp, ops>>

\* cancel_protection() in a computation without a Task: get_current_task()
\* gives None, and None has no _cancel_protection.
ProtectFails ==
    /\ Running("coro", "resume")
    /\ susp[Top.t].k = "protect" /\ SelfOf(Top.a) = None
    /\ RawEnd(Top.t, "AttributeError")
    /\ susp' = [susp EXCEPT ![Top.t] = [k |-> "none", e |-> 0]]
    /\ UNCHANGED ops

\* The task and the Events of the behaviours with a coroutine of raw_start().
RawTasks == {t \in Tasks : \A u \in Tasks : t <= u}
RawEvents == UserEvents \cup {CompletionEvent(t) : t \in RawTasks}

NextRaw ==
    \/ \E t \in RawTasks : Start(t)
    \/ \E t \in RawTasks : Cancel(t)
    \/ \E t \in RawTasks : GetResult(t)
    \/ \E t \in RawTasks : SetSuppresses(t)
    \/ RawStart
    \/ \E e \in UserEvents, n \in Args : EventSet(e, n)
    \/ \E e \in UserEvents : EventClear(e)
    \/ \E e \in RawEvents, c \in Callbacks : AddCallback(e, c)
    \/ CancelBegin
    \/ StartBegin
    \/ RawStartBegin
    \/ ResultBegin
    \/ StepBegin
    \/ DriveRegister
    \/ DriveRegistered
    \/ DriveStop
    \/ DriveCheck
    \/ CloseReturn
    \/ Propagate
    \/ SetBegin
    \/ SetLoop
    \/ SetNext
    \/ WrapperEnter
    \/ Resumed
    \/ ProtectFails
    \/ \E c \in RawTasks \cup {Raw}, e \in RawEvents : Wait(c, e)
    \/ \E c \in RawTasks \cup {Raw} : SleepForever(c)
    \/ \E c \in RawTasks \cup {Raw} : GetCurrentTask(c)
    \/ \E c \in RawTasks \cup {Raw} : Protect(c)
    \/ \E t \in RawTasks : Unprotect(t)
    \/ \E t \in RawTasks : Return(t)
    \/ \E t \in RawTasks : Raise(t)
    \/ RawReturn(Raw)
    \/ RawRaise(Raw)
    \/ CallReturned
    \/ CallRaised
    \/ RawCallRaised
    \/ WrapperClosed
    \/ WrapperFinally
    \/ WrapperEnd

SpecRaw == Init /\ [][NextRaw]_vars

----------------------------------------------------------------------------
\* Behaviours that go on from a state in which tasks are parked

\* The nesting depths of cancel_protection() at which the first task waits.
ParkDepths == {0, 2}

\* The states after the driver has started the tasks of W, in the order of
\* their numbers, and each has awaited the wait() of the first user Event,
\* which is not set; the first task has done so inside d nested
\* cancel_protection() blocks.  Registrations made before the behaviour
\* begins have negative times.
InitParked ==
    \E W \in {{1}, {1, 2}}, d \in ParkDepths :
        LET e == CHOOSE u \in UserEvents : \A v \in UserEvents : u <= v
            Depth(t) == IF t = 1 THEN d ELSE 0
        IN
        /\ state = [t \in Tasks |-> IF t \in W THEN "STARTED" ELSE "CREATED"]
        /\ result = [t \in Tasks |-> None]
        /\ exception = [t \in Tasks |-> "none"]
        /\ suppresses = [t \in Tasks |-> FALSE]
        /\ cancel_called = [t \in Tasks |-> FALSE]
        /\ cancel_protection = [t \in Tasks |-> Depth(t)]
        /\ coro = [t \in Coros |-> IF t \in W THEN "CORO_SUSPENDED" ELSE "CORO_CREATED"]
        /\ susp = [t \in Coros |-> IF t \in W THEN [k |-> "wait", e |-> e]
                                              ELSE [k |-> "none", e |-> 0]]
        /\ scopes = [t \in Tasks |-> Depth(t)]
        /\ got = [t \in Coros |-> None]
        /\ flag = [u \in Events |-> FALSE]
        /\ value = [u \in Events |-> None]
        /\ list = [u \in Events |->
                     IF u # e THEN <<>>
                     ELSE IF W = {1} THEN <<Waiter("task", 1, 0 - 2)>>
                     ELSE <<Waiter("task", 1, 0 - 2), Waiter("task", 2, 0 - 1)>>]
        /\ cbcount = [c \in Callbacks |-> 0]
        /\ cbgot = [c \in Callbacks |-> None]
        /\ cbreg = [c \in Callbacks |-> 0]
        /\ stack = <<>>
        /\ ret = NoRet
        /\ ops = 0

SpecParked == InitParked /\ [][Next]_vars

----------------------------------------------------------------------------
\* Notions the properties are stated with

Terminal(t) == state[t] \in {"DONE", "CANCELLED"}

\* The positions of the stack at which the coroutine of task t executes.
CoroFrames(t) == {i \in 1..Len(stack) : stack[i].k = "coro" /\ stack[i].t = t}

OnStack(t) == CoroFrames(t) # {}

\* A call of f on task t has just ended.
Ended(f, t) == ret.f = f /\ ret.t = t /\ ret.k \in {"return", "raise"}

\* The coroutine state and the stack agree.
StackConsistent ==
    \A t \in Tasks :
        /\ coro[t] = "CORO_RUNNING" <=> OnStack(t)
        /\ Cardinality(CoroFrames(t)) <= 1
        /\ scopes[t] = cancel_protection[t]
        /\ state[t] = "CREATED" =>
               \/ coro[t] \in {"CORO_CREATED", "CORO_CLOSED"}
               \/ \E i \in CoroFrames(t) : stack[i].ph = "enter"
        /\ state[t] = "STARTED" => coro[t] \in {"CORO_RUNNING", "CORO_SUSPENDED"}

----------------------------------------------------------------------------
\* C1: the state of a task changes only along CREATED -> STARTED -> DONE or
\* CREATED -> STARTED -> CANCELLED: never backward, never to DONE or
\* CANCELLED from CREATED, and never again once it is DONE or CANCELLED.
C1_StateMachine ==
    [][\A t \in Tasks :
          state'[t] # state[t] =>
              <<state[t], state'[t]>> \in {<<"CREATED", "STARTED">>,
                                           <<"STARTED", "DONE">>,
                                           <<"STARTED", "CANCELLED">>}]_vars

\* Both terminal states have been reached.
C1_Witness ==
    \E t, u \in Tasks :
        /\ state[t] = "DONE"
        /\ state[u] = "CANCELLED"
        /\ stack = <<>>

\* C2: the completion event of a task is set only when the task is terminal,
\* carries the task as payload, stays set once it is set (it fires at most
\* once), is set in every state in which nothing runs and the task is
\* terminal, and its waiters are called only when the task is terminal, with
\* the result stored if the task is DONE.
C2_CompletionEvent ==
    /\ [](\A t \in Tasks :
            LET e == CompletionEvent(t) IN
            /\ flag[e] => Terminal(t) /\ value[e] = TaskRef(t)
            /\ (stack = <<>> /\ Terminal(t)) => flag[e]
            /\ \A i \in 1..Len(stack) :
                   (stack[i].k = "set" /\ stack[i].e = e /\ stack[i].ph # "begin") =>
                       /\ Terminal(t)
                       /\ stack[i].a = TaskRef(t)
                       /\ state[t] = "DONE" => result[t] = RetVal
            /\ \A c \in Callbacks : cbgot[c] = TaskRef(t) => Terminal(t))
    /\ [][\A t \in Tasks :
            LET e == CompletionEvent(t) IN
            /\ flag[e] => flag'[e] /\ value'[e] = value[e]
            /\ (~flag[e] /\ flag'[e]) => (Terminal(t) /\ OnStack(t))]_vars

\* A plain callback registered on the completion event of a task before the
\* task ended has been called with the task, which is DONE.
C2_Witness ==
    \E t \in Tasks, c \in Callbacks :
        /\ stack = <<>>
        /\ cbgot[c] = TaskRef(t) /\ cbcount[c] = 1
        /\ state[t] = "DONE" /\ result[t] = RetVal
        /\ flag[CompletionEvent(t)]

\* C3: cancel() on a STARTED task whose coroutine is suspended and whose
\* _cancel_protection is 0 closes the coroutine within the call: when the
\* call ends the task is CANCELLED and its completion event is set.
C3_CancelSuspended ==
    \A t \in Tasks :
        (/\ Ended("cancel", t)
         /\ ret.pre.st = "STARTED"
         /\ ret.pre.co = "CORO_SUSPENDED"
         /\ ret.pre.pr = 0) =>
            /\ state[t] = "CANCELLED"
            /\ coro[t] = "CORO_CLOSED"
            /\ flag[CompletionEvent(t)]

\* cancel() has returned to the driver for a task parked on sleep_forever().
C3_Witness ==
    \E t \in Tasks :
        /\ stack = <<>>
        /\ ret.f = "cancel" /\ ret.t = t /\ ret.k = "return"
        /\ ret.pre.st = "STARTED" /\ ret.pre.co = "CORO_SUSPENDED" /\ ret.pre.pr = 0
        /\ susp[t].k = "sleep"
        /\ state[t] = "CANCELLED"

\* C4: GeneratorExit is thrown into a coroutine only when the task's
\* _cancel_protection is 0 and the coroutine is nowhere else on the stack,
\* and a coroutine that never ran is closed only when it is not protected;
\* cancel() on a task that is running or protected returns normally and
\* leaves the task STARTED and its coroutine as it was.
C4_ForcedOnlyWhenIdle ==
    /\ \A i \in 1..Len(stack) :
           (stack[i].k = "coro" /\ stack[i].ph = "throw") =>
               /\ cancel_protection[stack[i].t] = 0
               /\ CoroFrames(stack[i].t) = {i}
    /\ \A t \in Tasks :
           (/\ Ended("cancel", t)
            /\ ret.pre.st = "STARTED"
            /\ (ret.pre.co = "CORO_RUNNING" \/ ret.pre.pr > 0)) =>
               /\ ret.k = "return"
               /\ state[t] = "STARTED"
               /\ coro[t] = ret.pre.co
               /\ cancel_protection[t] = ret.pre.pr
               /\ cancel_called[t]
               /\ ~flag[CompletionEvent(t)]

\* A task has called cancel() on itself in the middle of a step and goes on.
C4_Witness ==
    \E t \in Tasks :
        /\ Running("coro", "call") /\ Top.t = t
        /\ Ended("cancel", t)
        /\ ret.pre.co = "CORO_RUNNING"
        /\ state[t] = "STARTED"

\* cancel() has returned for a task that is suspended inside cancel_protection().
C4_WitnessProtected ==
    \E t \in Tasks :
        /\ Ended("cancel", t)
        /\ ret.pre.co = "CORO_SUSPENDED" /\ ret.pre.pr > 0
        /\ state[t] = "STARTED"

\* C5: when start() or _step_coro returns normally with cancel requested and
\* _cancel_protection 0, the task is not left suspended: its coroutine is
\* closed and the task is terminal (CANCELLED if the step had parked it); so
\* when nothing runs, no STARTED task has cancel requested and
\* _cancel_protection 0.
C5_DeferredCancelApplied ==
    \A t \in Tasks :
        /\ (/\ ret.k = "return" /\ ret.f \in {"start", "step"} /\ ret.t = t
            /\ cancel_called[t]
            /\ cancel_protection[t] = 0) =>
               (coro[t] = "CORO_CLOSED" /\ Terminal(t))
        /\ stack = <<>> =>
               ~(state[t] = "STARTED" /\ cancel_called[t] /\ cancel_protection[t] = 0)

\* A cancel() made while the task was running has been applied at the end of
\* the step: the task was parked and start() or _step_coro closed it.
C5_Witness ==
    \E t \in Tasks :
        /\ ret.k = "return" /\ ret.f \in {"start", "step"} /\ ret.t = t
        /\ state[t] = "CANCELLED"
        /\ susp[t].k \in {"sleep", "wait"}
        /\ ~ret.pre.cc
        /\ cancel_called[t]

\* C6: cancel() on a CREATED task that is not protected drives it to
\* CANCELLED and sets its completion event, so that the waiters of that event
\* are notified.
C6_CancelCreated ==
    \A t \in Tasks :
        (/\ Ended("cancel", t)
         /\ ret.pre.st = "CREATED"
         /\ ret.pre.co = "CORO_CREATED"
         /\ ret.pre.pr = 0) =>
            /\ state[t] = "CANCELLED"
            /\ flag[CompletionEvent(t)]
            /\ list[CompletionEvent(t)] = <<>>

\* C7: start() on a CREATED task whose cancel() was called before returns
\* without raising and leaves the task CANCELLED.
C7_StartAfterCancel ==
    \A t \in Tasks :
        (/\ Ended("start", t)
         /\ ret.pre.st = "CREATED"
         /\ ret.pre.cc) =>
            /\ ret.k = "return"
            /\ state[t] = "CANCELLED"

\* The times of registration of the entries of a list of waiters.
Ns(q) == {q[i].n : i \in DOMAIN q}

\* The lists of waiters of the program: those of the Events and those the
\* running calls of Event.set have captured.
Places == {<<"list", e>> : e \in Events} \cup {<<"frame", i>> : i \in 1..Len(stack)}
At(p) == IF p[1] = "list" THEN list[p[2]] ELSE stack[p[2]].w

\* The registrations of the plain callback c that have not been served.
CbPending(c) ==
    UNION {{At(p)[i].n : i \in {j \in DOMAIN At(p) : At(p)[j].k = "cb" /\ At(p)[j].id = c}}
           : p \in Places}

C9_LateWaiter ==
    /\ [][\A e \in Events, c \in Callbacks :
             (flag[e] /\ AddCallback(e, c)) =>
                 /\ cbgot'[c] = value[e]
                 /\ cbcount'[c] = cbcount[c] + 1
                 /\ UNCHANGED <<eventVars, stack>>]_vars
    /\ [][(Running("coro", "resume") /\ susp[Top.t].k = "waitset") =>
             /\ flag[susp[Top.t].e]
             /\ got'[Top.t] = value[susp[Top.t].e]
             /\ UNCHANGED eventVars]_vars
    /\ [][(Running("set", "begin") /\ ~flag[Top.e]) => value'[Top.e] = Top.a]_vars
    /\ [](/\ \A e \in Events : flag[e] => list[e] = <<>>
          /\ \A t \in Tasks :
                (coro[t] = "CORO_SUSPENDED" /\ susp[t].k = "waitset") =>
                    /\ stack # <<>>
                    /\ Top.k \in {"start", "step"} /\ Top.t = t
                    /\ Top.ph \in {"sent", "begin"})

\* start() has returned to the driver for a task that awaited an Event that
\* was set before and then returned: the task is DONE and has the payload.
C9_Witness ==
    \E t \in Tasks, e \in UserEvents :
        /\ stack = <<>>
        /\ ret.f = "start" /\ ret.t = t /\ ret.k = "return"
        /\ state[t] = "DONE" /\ result[t] = RetVal
        /\ flag[e] /\ got[t] = value[e] /\ got[t].k = "arg"

\* C10: Event.set calls the waiters it has captured one at a time, the one
\* that registered first before the others, each with the arguments of the
\* set() call; a task is running only while it is on the stack, so a task
\* that set() has resumed is parked or finished when set() goes on.
C10_NotifyInOrder ==
    /\ [][(Running("set", "loop") /\ Top.w # <<>>) =>
             LET fr == Top
                 after == stack'[Len(stack)].w
                 called == {i \in DOMAIN fr.w : fr.w[i].n \notin Ns(after)}
             IN /\ Ns(after) \subseteq Ns(fr.w)
                /\ Cardinality(called) = 1
                /\ \A i \in called :
                      /\ \A j \in DOMAIN fr.w : j # i => fr.w[i].n < fr.w[j].n
                      /\ IF fr.w[i].k = "task"
                         THEN /\ Len(stack') = Len(stack) + 1
                              /\ stack'[Len(stack')].k = "step"
                              /\ stack'[Len(stack')].t = fr.w[i].id
                              /\ stack'[Len(stack')].a = fr.a
                         ELSE /\ cbcount'[fr.w[i].id] = cbcount[fr.w[i].id] + 1
                              /\ cbgot'[fr.w[i].id] = fr.a]_vars
    /\ [](\A t \in Tasks : coro[t] = "CORO_RUNNING" <=> OnStack(t))

\* A plain callback and then a task have registered on an Event; set() has
\* called the callback and, after it, has resumed the task, on its own stack.
C10_Witness ==
    \E t \in Tasks, c \in Callbacks, i \in 1..Len(stack) :
        /\ stack[i].k = "set" /\ stack[i].ph = "call" /\ stack[i].e \in UserEvents
        /\ stack[i].w = <<>>
        /\ cbcount[c] = 1 /\ cbgot[c] = stack[i].a
        /\ got[t] = stack[i].a
        /\ OnStack(t)

\* C11: when the computation of a task ends with an error the task becomes
\* CANCELLED and the wrapper goes on to set the completion event; the error
\* is stored in _exception and swallowed if the task suppresses exceptions,
\* and otherwise is not stored and leaves the coroutine, start(), _step_coro
\* and Event.set() unchanged, so that the call that drove the step raises;
\* GeneratorExit makes the task CANCELLED too and is never stored.
C11_ErrorClassified ==
    /\ [][\A t \in Tasks :
             (/\ Running("coro", "user") \/ Running("coro", "call")
              /\ Top.t = t
              /\ state[t] = "STARTED" /\ state'[t] = "CANCELLED") =>
                 LET x == IF Top.ph = "call" THEN ret.x ELSE "Error"
                     after == stack'[Len(stack)]
                 IN /\ Len(stack') = Len(stack)
                    /\ after.ph = "finally"
                    /\ IF suppresses[t]
                       THEN exception'[t] = x /\ after.x = "StopIteration"
                       ELSE exception'[t] = exception[t] /\ after.x = x]_vars
    /\ [][(Running("coro", "throw")) =>
             /\ state'[Top.t] = "CANCELLED"
             /\ exception' = exception
             /\ stack'[Len(stack)].ph = "finally"
             /\ stack'[Len(stack)].x = "GeneratorExit"]_vars
    /\ [][(Running("coro", "finally")) =>
             /\ Len(stack') = Len(stack) + 1
             /\ stack'[Len(stack')].k = "set"
             /\ stack'[Len(stack')].e = CompletionEvent(Top.t)]_vars
    /\ [][(Running("coro", "finwait") /\ ret.k = "return"
           /\ Top.x \notin {"StopIteration", "GeneratorExit"}) =>
             ret'.k = "raise" /\ ret'.x = Top.x]_vars
    /\ [][(/\ stack # <<>> /\ ret.k = "raise"
           /\ Top.k \in {"start", "step", "set"}) =>
             /\ stack' = Pop
             /\ ret'.k = "raise" /\ ret'.x = ret.x]_vars
    /\ [](\A t \in Tasks :
            /\ exception[t] # "none" =>
                  /\ suppresses[t]
                  /\ state[t] = "CANCELLED"
                  /\ exception[t] # "GeneratorExit"
            /\ (state[t] = "CANCELLED" /\ ~cancel_called[t]) =>
                  (suppresses[t] <=> exception[t] # "none")
            /\ (stack = <<>> /\ state[t] = "CANCELLED") => flag[CompletionEvent(t)]
            /\ (/\ Ended("start", t) \/ Ended("step", t)
                /\ ret.pre.st \in {"CREATED", "STARTED"}
                /\ state[t] = "CANCELLED"
                /\ ~cancel_called[t] /\ ~suppresses[t]) =>
                  ret.k = "raise")

\* A task that waited for an Event has raised an error when Event.set()
\* resumed it: set() has raised the error to the driver, the task is
\* CANCELLED, its completion event is set and nothing is stored.
C11_Witness ==
    \E t \in Tasks :
        /\ stack = <<>>
        /\ ret.f = "set" /\ ret.k = "raise" /\ ret.x = "Error"
        /\ state[t] = "CANCELLED" /\ ~suppresses[t]
        /\ exception[t] = "none"
        /\ flag[CompletionEvent(t)]

\* A task that suppresses exceptions has raised an error in its first step:
\* start() has returned and the error is stored.
C11_WitnessSuppressed ==
    \E t \in Tasks :
        /\ stack = <<>>
        /\ ret.f = "start" /\ ret.t = t /\ ret.k = "return"
        /\ state[t] = "CANCELLED" /\ suppresses[t]
        /\ exception[t] = "Error"
        /\ flag[CompletionEvent(t)]

\* C13: start() on a task that is not CREATED raises at once: it sends
\* nothing to the coroutine and changes neither the task nor any Event; so
\* every start() that got as far as the coroutine, and every start() that
\* returned, found the task CREATED, and a second start() of a task raises.
C13_StartOnlyCreated ==
    /\ [][(Running("start", "begin") /\ state[Top.t] # "CREATED") =>
             /\ stack' = Pop
             /\ ret'.k = "raise" /\ ret'.f = "start" /\ ret'.t = Top.t
             /\ UNCHANGED <<taskVars, eventVars, cbVars>>]_vars
    /\ [](/\ \A i \in 1..Len(stack) :
                (stack[i].k = "start" /\ stack[i].ph # "begin") =>
                    stack[i].pre.st = "CREATED"
          /\ (ret.f = "start" /\ ret.k = "return") => ret.pre.st = "CREATED"
          /\ (ret.f = "start" /\ ret.pre.st # "CREATED") =>
                /\ ret.k = "raise"
                /\ state[ret.t] = ret.pre.st
                /\ coro[ret.t] = ret.pre.co)

\* The driver has started a task a second time while the task is parked:
\* the call has raised and the task is still parked.
C13_Witness ==
    \E t \in Tasks :
        /\ stack = <<>>
        /\ ret.f = "start" /\ ret.t = t /\ ret.k = "raise" /\ ret.x = "ValueError"
        /\ ret.pre.st = "STARTED"
        /\ state[t] = "STARTED" /\ coro[t] = "CORO_SUSPENDED"

\* start() has raised for a task that is DONE; the result is still there.
C13_WitnessDone ==
    \E t \in Tasks :
        /\ ret.f = "start" /\ ret.t = t /\ ret.k = "raise"
        /\ ret.pre.st = "DONE"
        /\ state[t] = "DONE" /\ result[t] = RetVal
        /\ flag[CompletionEvent(t)]

\* C14: Event.clear changes nothing but _flag, which it makes False: the
\* payload and the list of waiters stay, no waiter and no callback is called,
\* and on an Event that is not set nothing changes at all; a waiter leaves
\* the list of an Event only when a set() that finds the Event not set
\* captures the whole list, and that set() stores its own arguments.
C14_ClearOnlyFlag ==
    /\ [][\A e \in UserEvents :
             EventClear(e) =>
                 /\ ~flag'[e]
                 /\ \A d \in Events : d # e => flag'[d] = flag[d]
                 /\ UNCHANGED <<value, list, taskVars, cbVars, stack>>
                 /\ ~flag[e] => UNCHANGED eventVars]_vars
    /\ [][\A e \in Events :
             (flag[e] /\ ~flag'[e]) =>
                 UNCHANGED <<value, list, taskVars, cbVars, stack>>]_vars
    /\ [][\A e \in Events :
             list'[e] # list[e] =>
                 \/ /\ Len(list'[e]) = Len(list[e]) + 1
                    /\ SubSeq(list'[e], 1, Len(list[e])) = list[e]
                 \/ /\ Running("set", "begin") /\ Top.e = e /\ ~flag[e]
                    /\ list'[e] = <<>>
                    /\ stack'[Len(stack)].w = list[e]
                    /\ flag'[e] /\ value'[e] = Top.a]_vars

\* An Event was set and cleared and has a waiter pending; set() is called
\* with other arguments than those the Event still holds.
C14_Witness ==
    /\ Running("set", "begin")
    /\ Top.e \in UserEvents
    /\ ~flag[Top.e]
    /\ value[Top.e] # None /\ value[Top.e] # Top.a
    /\ list[Top.e] # <<>>

\* C19: cancel() and _step_coro called on a task that is DONE or CANCELLED
\* return without raising and leave the task's state, result, _exception and
\* completion event as they were.
C19_TerminatedNoOp ==
    \A t \in Tasks :
        (/\ Ended("cancel", t) \/ Ended("step", t)
         /\ ret.pre.st \in {"DONE", "CANCELLED"}) =>
            /\ ret.k = "return"
            /\ state[t] = ret.pre.st
            /\ state[t] = "DONE" => result[t] = RetVal
            /\ flag[CompletionEvent(t)] => value[CompletionEvent(t)] = TaskRef(t)

\* C16: once an Event is set and no set() of it is still notifying, no task
\* is left parked in a wait() it registered on that Event, and no
\* registration of a callback has been dropped without a call: every waiter
\* that was pending when set() fired the Event has been called, whatever
\* the waiters called before it did.
C16_AllWaitersNotified ==
    /\ \A t \in Tasks, e \in Events :
           (/\ coro[t] = "CORO_SUSPENDED"
            /\ susp[t] = [k |-> "wait", e |-> e]
            /\ flag[e]) =>
               \E i \in 1..Len(stack) :
                   /\ stack[i].k = "set" /\ stack[i].e = e
                   /\ stack[i].ph \in {"loop", "call"}
    /\ \A c \in Callbacks : cbcount[c] + Cardinality(CbPending(c)) = cbreg[c]

\* A call of Event.set on the Event e is notifying the waiters it captured.
Draining(e) ==
    \E i \in 1..Len(stack) :
        stack[i].k = "set" /\ stack[i].e = e /\ stack[i].ph \in {"loop", "call"}

\* What Event.set and the registrations made while it notifies do to the
\* lists: a running set() keeps the list it captured and only takes waiters
\* from its head, whatever is registered meanwhile; a wait() on an Event that
\* is not set, made while a set() notifies, appends the task to the list of
\* the Event it waits for and to no other; and a registration leaves the list
\* of an Event only when a set() of that Event captures the list.
DrainKeepsCaptured ==
    /\ [][\A i \in 1..Len(stack) :
             (i <= Len(stack') /\ stack[i].k = "set" /\ stack[i].ph # "begin") =>
                 /\ stack'[i].k = "set"
                 /\ stack'[i].e = stack[i].e /\ stack'[i].a = stack[i].a
                 /\ \/ stack'[i].w = stack[i].w
                    \/ /\ i = Len(stack) /\ stack[i].ph = "loop" /\ stack[i].w # <<>>
                       /\ stack'[i].w = Tail(stack[i].w)]_vars
    /\ [][(/\ Driving /\ Top.ph = "sent"
           /\ ret.k = "yield" /\ ret.r = "append"
           /\ \E d \in Events : Draining(d)) =>
             /\ ~flag[ret.e]
             /\ list' = [list EXCEPT ![ret.e] = Append(@, Waiter("task", Top.t, ops))]
             /\ Len(stack') = Len(stack)
             /\ coro'[Top.t] = "CORO_SUSPENDED"]_vars
    /\ [][\A e \in Events :
             (list[e] # <<>> /\ \E k \in DOMAIN list[e] : list[e][k].n \notin Ns(list'[e])) =>
                 /\ Running("set", "begin") /\ Top.e = e
                 /\ stack'[Len(stack)].w = list[e]]_vars

C17_WitnessCleared ==
    \E t \in Tasks, e \in UserEvents :
        /\ Draining(e) /\ ~flag[e]
        /\ coro[t] = "CORO_SUSPENDED" /\ susp[t] = [k |-> "wait", e |-> e]
        /\ \E k \in DOMAIN list[e] : list[e][k].k = "task" /\ list[e][k].id = t

\* C18: _cancel_protection of a task is the number of cancel_protection()
\* blocks open in its computation, so never negative; leaving a block takes
\* one off, leaving the computation by return, error or GeneratorExit takes
\* off all that are open, so it is 0 when the task is DONE or CANCELLED;
\* while it is above 0 the coroutine is not closed by cancel(): a task ends
\* CANCELLED from inside a block only by an error of its own computation,
\* and a task with cancel requested stays STARTED at every depth above 0.
C18_ProtectionDepth ==
    /\ [](\A t \in Tasks :
            /\ cancel_protection[t] = scopes[t]
            /\ cancel_protection[t] >= 0
            /\ Terminal(t) => cancel_protection[t] = 0
            /\ \A i \in CoroFrames(t) : stack[i].ph = "throw" => cancel_protection[t] = 0)
    /\ [][\A t \in Tasks :
             /\ cancel_protection'[t] < cancel_protection[t] =>
                   /\ Running("coro", "user") \/ Running("coro", "call") \/ Running("coro", "throw")
                   /\ Top.t = t
                   /\ \/ /\ cancel_protection'[t] = cancel_protection[t] - 1
                         /\ state'[t] = "STARTED"
                      \/ /\ cancel_protection'[t] = 0
                         /\ Terminal(t)'
             /\ cancel_protection'[t] > cancel_protection[t] =>
                   /\ cancel_protection'[t] = cancel_protection[t] + 1
                   /\ Running("coro", "resume") /\ Top.t = t
             /\ (cancel_protection[t] > 0 /\ state[t] = "STARTED" /\ state'[t] = "CANCELLED") =>
                   /\ Running("coro", "user") \/ Running("coro", "call")
                   /\ Top.t = t]_vars
    /\ [](\A t \in Tasks :
            (/\ Ended("cancel", t) \/ Ended("step", t) \/ Ended("start", t)
             /\ cancel_called[t] /\ cancel_protection[t] > 0) =>
                state[t] = "STARTED")

\* A task parked inside two nested cancel_protection() blocks was cancelled,
\* then resumed by Event.set(); it has left the inner block and parked
\* again: it is still STARTED, at depth 1, with the cancel request pending.
C18_Witness ==
    \E t \in Tasks :
        /\ stack = <<>>
        /\ ret.f = "set" /\ ret.k = "return"
        /\ state[t] = "STARTED" /\ coro[t] = "CORO_SUSPENDED"
        /\ cancel_called[t]
        /\ cancel_protection[t] = 1
        /\ got[t].k = "arg"

\* C12: reading task.result returns _result exactly when the task is DONE,
\* raises InvalidStateError "was cancelled" when it is CANCELLED and
\* InvalidStateError "not ready" when it is CREATED or STARTED, and changes
\* neither the task nor any Event.
C12_ResultAccessor ==
    /\ [][Running("result", "begin") =>
             LET t == Top.t IN
             /\ stack' = Pop
             /\ UNCHANGED <<taskVars, eventVars, cbVars>>
             /\ ret'.f = "result" /\ ret'.t = t
             /\ ret'.k = "return" <=> state[t] = "DONE"
             /\ state[t] = "DONE" => ret'.a = result[t]
             /\ state[t] = "CANCELLED" =>
                   ret'.k = "raise" /\ ret'.x = "InvalidStateError: was cancelled"
             /\ state[t] \in {"CREATED", "STARTED"} =>
                   ret'.k = "raise" /\ ret'.x = "InvalidStateError: not ready"]_vars
    /\ [](ret.f = "result" =>
            /\ ret.k \in {"return", "raise"}
            /\ ret.k = "return" => (ret.pre.st = "DONE" /\ ret.a = RetVal)
            /\ state[ret.t] = ret.pre.st)

\* The driver has read the result of a task that is DONE.
C12_Witness ==
    \E t \in Tasks :
        /\ stack = <<>>
        /\ ret.f = "result" /\ ret.t = t /\ ret.k = "return" /\ ret.a = RetVal
        /\ state[t] = "DONE"

\* The driver has read the result of a task that is CANCELLED.
C12_WitnessCancelled ==
    \E t \in Tasks :
        /\ stack = <<>>
        /\ ret.f = "result" /\ ret.t = t /\ ret.k = "raise"
        /\ ret.x = "InvalidStateError: was cancelled"
        /\ state[t] = "CANCELLED"

\* A result has been read before the task has ended.
C12_WitnessNotReady ==
    \E t \in Tasks :
        /\ ret.f = "result" /\ ret.t = t /\ ret.k = "raise"
        /\ ret.x = "InvalidStateError: not ready"
        /\ state[t] = "STARTED"

\* C15: the request get_current_task() yields is answered at once by the
\* start(), _step_coro or raw_start() call that receives it: the call
\* resumes the coroutine with its own resume callback, inside itself, and
\* touches no list; the computation then has the Task whose _step_coro
\* resumed it, which is its own, or None if the closure of raw_start()
\* resumed it; a coroutine is never left parked at that request.
C15_CurrentTask ==
    /\ [][(/\ Driving /\ Top.ph = "sent"
           /\ ret.k = "yield" /\ ret.r = "self") =>
             /\ UNCHANGED <<taskVars, eventVars, cbVars>>
             /\ Len(stack') = Len(stack) + 1
             /\ stack'[Len(stack)].ph = "reg"
             /\ stack'[Len(stack')].k = "step"
             /\ stack'[Len(stack')].t = Top.t
             /\ stack'[Len(stack')].a = StepCoroRef(Top.t)]_vars
    /\ [][(Running("step", "begin") /\ Top.a.k = "step_coro") =>
             /\ coro[Top.t] = "CORO_SUSPENDED"
             /\ Len(stack') = Len(stack) + 1
             /\ stack'[Len(stack')].k = "coro" /\ stack'[Len(stack')].t = Top.t
             /\ stack'[Len(stack')].a = Top.a]_vars
    /\ [][(Running("coro", "resume") /\ susp[Top.t].k \in {"self", "protect"}) =>
             /\ Top.a = StepCoroRef(Top.t)
             /\ Top.t \in Tasks => SelfOf(Top.a) = TaskRef(Top.t)
             /\ Top.t = Raw => SelfOf(Top.a) = None
             /\ susp[Top.t].k = "self" =>
                   /\ got'[Top.t] = IF Top.t \in Tasks THEN TaskRef(Top.t) ELSE None
                   /\ Len(stack') = Len(stack)
                   /\ stack'[Len(stack)].ph = "user"
                   /\ coro'[Top.t] = "CORO_RUNNING"
             /\ UNCHANGED eventVars]_vars
    /\ [](\A c \in Coros :
            (coro[c] = "CORO_SUSPENDED" /\ susp[c].k \in {"self", "protect"}) =>
                /\ Driving /\ Top.t = c
                /\ \/ Top.ph = "sent" /\ ret.k = "yield"
                   \/ Top.k = "step" /\ Top.ph = "begin" /\ Top.a = StepCoroRef(c))

\* A task has looked up its task and has then called raw_start(); the
\* coroutine given to raw_start() has looked up its task too, and goes on
\* inside raw_start() with None, while the task has itself.
C15_Witness ==
    \E t \in Tasks :
        /\ state[t] = "STARTED" /\ got[t] = TaskRef(t)
        /\ Len(stack) >= 3
        /\ Top.k = "coro" /\ Top.t = Raw /\ Top.ph = "user"
        /\ stack[Len(stack) - 1].k = "step" /\ stack[Len(stack) - 1].a = StepCoroRef(Raw)
        /\ stack[Len(stack) - 2].k = "raw_start" /\ stack[Len(stack) - 2].ph = "reg"
        /\ got[Raw] = None
        /\ \A e \in Events : list[e] = <<>>

\* A task that Event.set() has resumed has looked up its task.
C15_WitnessResumed ==
    \E t \in Tasks, e \in UserEvents :
        /\ Draining(e)
        /\ Top.k = "coro" /\ Top.t = t /\ Top.ph = "user"
        /\ stack[Len(stack) - 1].k = "step" /\ stack[Len(stack) - 1].a = StepCoroRef(t)
        /\ got[t] = TaskRef(t)

\* C20: a computation that returns makes its task DONE and stores the result
\* also when cancel() was called before, in the middle of a step or inside
\* cancel_protection(); start() and _step_coro, which see StopIteration, do
\* nothing to the task; a task that is DONE stays DONE, keeps its result,
\* which task.result returns, and its completion event, which is set with
\* the task when nothing runs; and a cancel() of a DONE task returns.
C20_CancelDoesNotUndoDone ==
    /\ [][\A t \in Tasks :
             (cancel_called[t] /\ Return(t)) =>
                 /\ state'[t] = "DONE" /\ result'[t] = RetVal
                 /\ cancel_protection'[t] = 0]_vars
    /\ [][(Driving /\ Top.ph = "sent" /\ ret.k = "stop") =>
             /\ UNCHANGED <<taskVars, eventVars, cbVars>>
             /\ stack' = Pop
             /\ ret'.k = "return"]_vars
    /\ [][\A t \in Tasks :
             state[t] = "DONE" =>
                 /\ state'[t] = "DONE"
                 /\ result'[t] = result[t] /\ exception'[t] = exception[t]
                 /\ flag[CompletionEvent(t)] =>
                       /\ flag'[CompletionEvent(t)]
                       /\ value'[CompletionEvent(t)] = value[CompletionEvent(t)]]_vars
    /\ [](\A t \in Tasks :
            /\ state[t] = "DONE" =>
                  /\ TaskResult(t) = [k |-> "return", v |-> RetVal, x |-> "none"]
                  /\ exception[t] = "none"
                  /\ stack = <<>> =>
                        /\ flag[CompletionEvent(t)]
                        /\ value[CompletionEvent(t)] = TaskRef(t)
                        /\ coro[t] = "CORO_CLOSED"
            /\ (Ended("cancel", t) /\ ret.pre.st = "DONE") =>
                  ret.k = "return" /\ state[t] = "DONE")

\* A task with a cancel request pending, made while it was parked inside
\* cancel_protection() or while it ran, was resumed by Event.set() and its
\* computation has just returned: the task is DONE.
C20_Witness ==
    \E t \in Tasks :
        /\ Running("coro", "finally") /\ Top.t = t
        /\ Top.x = "StopIteration"
        /\ cancel_called[t]
        /\ got[t].k = "arg"
        /\ state[t] = "DONE" /\ result[t] = RetVal

\* The same task when Event.set() has returned to the driver.
C20_WitnessAfter ==
    \E t \in Tasks :
        /\ stack = <<>> /\ ret.f = "set" /\ ret.k = "return"
        /\ cancel_called[t] /\ got[t].k = "arg"
        /\ state[t] = "DONE" /\ flag[CompletionEvent(t)]

====
